---------------------------- MODULE Spec2Model ----------------------------
(***************************************************************************)
(* School App backend (src/main.py): registration, login and the           *)
(* token-protected endpoints /me and /dashboard, over a user directory.    *)
(*                                                                         *)
(* The state is the "user" collection, the tokens handed out so far, the   *)
(* wall clock, the register calls in flight between their existence check  *)
(* and their insert (register is a synchronous handler run on a thread     *)
(* pool, and the two are separate directory calls) and the last response.  *)
(***************************************************************************)
EXTENDS Naturals, Integers, Sequences, FiniteSets, Bags, TLC

VARIABLES
    users,      \* the "user" collection, in insertion order
    issued,     \* the tokens handed to clients, each with its time of issue
    now,        \* the wall clock, in ticks
    pending,    \* the register calls past their existence check, not yet inserted
    resp        \* the last response sent

vars == <<users, issued, now, pending, resp>>

---------------------------------------------------------------------------
(* Bounds of the model                                                     *)

MaxUsers == 2          \* documents the collection may hold
MaxTokens == 2         \* tokens clients hold before login stops adding more
MaxFine == 4           \* single clock ticks taken besides the long jump
TicksPerSecond == 2    \* clock resolution: ticks per whole second
NumProcs == 2          \* threads that run register calls side by side

---------------------------------------------------------------------------
(* Values                                                                  *)

NoneVal == "<None>"                       \* Python's None
EmptyStr == ""

Names == {"Ann"}
Emails == {"a@x.com", "b@x.com"}
Passwords == {"pw123", "pw456"}
Roles == {"student", "teacher"}
Grades == {NoneVal, EmptyStr, "5A"}       \* grade: Optional[str] = None
Salts == {"s1"}

\* str(ObjectId): the hexadecimal text of the k-th generated id
ObjectIdHex == <<"65a001", "65a002", "65a003", "65a004", "65a005", "65a006">>

ObjectId(k) == [oid |-> k]

str(id) == ObjectIdHex[id.oid]

\* src/main.py:26-28
SECRET_KEY == "dev-secret-key-change-me"
ALGORITHM == "HS256"
ACCESS_TOKEN_EXPIRE_MINUTES == 60 * 8

AttackerKey == "not-the-server-key"

TTLSeconds == ACCESS_TOKEN_EXPIRE_MINUTES * 60
TTLTicks == TTLSeconds * TicksPerSecond

\* the long clock jump: one second short of the token lifetime
Jump == (TTLSeconds - 1) * TicksPerSecond

---------------------------------------------------------------------------
(* Credential hasher (passlib bcrypt): a salted one-way digest             *)

Digest(salt, password) == [scheme |-> "bcrypt", salt |-> salt, of |-> password]

\* get_password_hash: a fresh salt is drawn on every call
get_password_hash(password) == {Digest(s, password) : s \in Salts}

\* verify_password: recompute under the digest's own salt and compare
verify_password(plain_password, hashed_password) ==
    Digest(hashed_password.salt, plain_password) = hashed_password

---------------------------------------------------------------------------
(* Token issuer / verifier (python-jose, HS256)                            *)

\* timegm(dt.utctimetuple()): whole seconds, the fraction dropped
timegm(ticks) == ticks \div TicksPerSecond

Claims(sub, email, role, exp) ==
    [sub |-> sub, email |-> email, role |-> role, exp |-> exp]

\* the MAC of a claim set under a key
Sign(key, claims) == [alg |-> ALGORITHM, key |-> key, msg |-> claims]

jwt_encode(claims, key) == [claims |-> claims, sig |-> Sign(key, claims)]

\* create_access_token(data): exp = now + default TTL, then sign
create_access_token(sub, email, role, nowTicks) ==
    jwt_encode(Claims(sub, email, role, timegm(nowTicks + TTLTicks)), SECRET_KEY)

\* jwt.decode: signature first, then the exp claim against the clock
jwt_decode(token, key, nowTicks) ==
    IF token.sig # Sign(key, token.claims)
    THEN [ok |-> FALSE, error |-> "InvalidSignature", claims |-> token.claims]
    ELSE IF token.claims.exp < timegm(nowTicks)
    THEN [ok |-> FALSE, error |-> "Expired", claims |-> token.claims]
    ELSE [ok |-> TRUE, error |-> "none", claims |-> token.claims]

---------------------------------------------------------------------------
(* User directory (database.get_documents / database.create_document)      *)

RECURSIVE SelectByEmail(_, _)
SelectByEmail(docs, email) ==
    IF docs = <<>> THEN <<>>
    ELSE IF Head(docs).email = email
         THEN <<Head(docs)>> \o SelectByEmail(Tail(docs), email)
         ELSE SelectByEmail(Tail(docs), email)

\* get_documents("user", {"email": email}): the matching documents, in order
get_documents(docs, email) == SelectByEmail(docs, email)

\* create_document("user", doc): stores doc under a fresh _id, returns str(_id)
create_document(docs, doc) ==
    LET id == ObjectId(Len(docs) + 1)
        stored == [_id |-> id, name |-> doc.name, email |-> doc.email,
                   role |-> doc.role, hashed_password |-> doc.hashed_password,
                   grade |-> doc.grade]
    IN [docs |-> Append(docs, stored), user_id |-> str(id)]

---------------------------------------------------------------------------
(* HTTP responses                                                          *)

NoToken == jwt_encode(Claims(NoneVal, NoneVal, NoneVal, 0), "")
NoUser == [none |-> TRUE]
NoRequest == [name |-> NoneVal, email |-> NoneVal, password |-> NoneVal,
              role |-> NoneVal, grade |-> NoneVal, token |-> NoToken]

RegisterRequest(name, email, password, role, grade) ==
    [name |-> name, email |-> email, password |-> password, role |-> role,
     grade |-> grade, token |-> NoToken]

LoginRequest(email, password) ==
    [name |-> NoneVal, email |-> email, password |-> password,
     role |-> NoneVal, grade |-> NoneVal, token |-> NoToken]

BearerRequest(token) ==
    [name |-> NoneVal, email |-> NoneVal, password |-> NoneVal,
     role |-> NoneVal, grade |-> NoneVal, token |-> token]

HTTPException(status_code, detail) ==
    [status |-> status_code, body |-> [detail |-> detail]]

\* what a finished request leaves behind: the request, the response, the
\* token it issued (if any) and the value get_current_user handed the handler
\* seq alternates, so that every handled request changes the last response
Response(op, request, status, body, token, user, seq) ==
    [op |-> op, req |-> request, status |-> status, body |-> body,
     token |-> token, user |-> user, seq |-> seq]

NoResponse == Response("none", NoRequest, 0, [detail |-> NoneVal], NoToken, NoUser, 0)

---------------------------------------------------------------------------
(* Handlers                                                                *)

\* `not grade`: None and the empty string are both falsy
Falsy(grade) == grade = NoneVal \/ grade = EmptyStr

\* register_user's checks with the existence check dropped
register_check_no_lookup(r, docs) ==
    IF r.role = "student" /\ Falsy(r.grade)
    THEN HTTPException(400, "grade is required for students")
    ELSE [status |-> 0, body |-> [detail |-> NoneVal]]

\* register_user's checks with the grade rule applied to every role
register_check_any_role(r, docs) ==
    IF Falsy(r.grade)
    THEN HTTPException(400, "grade is required for students")
    ELSE IF get_documents(docs, r.email) # <<>>
    THEN HTTPException(409, "Email already registered")
    ELSE [status |-> 0, body |-> [detail |-> NoneVal]]

\* register_user, up to and including the existence check
register_check(r, docs) ==
    IF r.role = "student" /\ Falsy(r.grade)
    THEN HTTPException(400, "grade is required for students")
    ELSE IF get_documents(docs, r.email) # <<>>
    THEN HTTPException(409, "Email already registered")
    ELSE [status |-> 0, body |-> [detail |-> NoneVal]]

\* register_user's second half with the existence check repeated at the insert
register_store_recheck(r, hashed, docs, nowTicks) ==
    LET user_doc == [name |-> r.name, email |-> r.email, role |-> r.role,
                     hashed_password |-> hashed, grade |-> r.grade]
        created == create_document(docs, user_doc)
        token == create_access_token(created.user_id, r.email, r.role, nowTicks)
    IN IF get_documents(docs, r.email) # <<>>
       THEN [docs |-> docs, token |-> NoToken, status |-> 409,
             body |-> [detail |-> "Email already registered"]]
       ELSE [docs |-> created.docs, token |-> token, status |-> 200,
             body |-> [user_id |-> created.user_id, access_token |-> token,
                       token_type |-> "bearer"]]

\* register_user's second half writing over a record that has the same email
register_store_upsert(r, hashed, docs, nowTicks) ==
    LET user_doc == [name |-> r.name, email |-> r.email, role |-> r.role,
                     hashed_password |-> hashed, grade |-> r.grade]
        kept == SelectSeq(docs, LAMBDA d : d.email # r.email)
        created == create_document(kept, user_doc)
        token == create_access_token(created.user_id, r.email, r.role, nowTicks)
    IN [docs |-> created.docs, token |-> token, status |-> 200,
        body |-> [user_id |-> created.user_id, access_token |-> token,
                  token_type |-> "bearer"]]

\* register_user, from hashing to the response
register_store(r, hashed, docs, nowTicks) ==
    LET user_doc == [name |-> r.name, email |-> r.email, role |-> r.role,
                     hashed_password |-> hashed, grade |-> r.grade]
        created == create_document(docs, user_doc)
        token == create_access_token(created.user_id, r.email, r.role, nowTicks)
    IN [docs |-> created.docs, token |-> token, status |-> 200,
        body |-> [user_id |-> created.user_id, access_token |-> token,
                  token_type |-> "bearer"]]

\* login_for_access_token with a response of its own for an unknown email
login_reveals_unknown_email(email, password, docs, nowTicks) ==
    LET found == get_documents(docs, email) IN
    IF found = <<>>
    THEN HTTPException(404, "User not found") @@ [token |-> NoToken]
    ELSE LET user == found[1] IN
         IF ~verify_password(password, user.hashed_password)
         THEN HTTPException(400, "Incorrect email or password") @@ [token |-> NoToken]
         ELSE LET access_token ==
                      create_access_token(str(user._id), user.email, user.role, nowTicks)
              IN [status |-> 200, token |-> access_token,
                  body |-> [access_token |-> access_token, token_type |-> "bearer"]]

\* login_for_access_token putting the email where the subject id belongs
login_sub_is_email(email, password, docs, nowTicks) ==
    LET found == get_documents(docs, email) IN
    IF found = <<>>
    THEN HTTPException(400, "Incorrect email or password") @@ [token |-> NoToken]
    ELSE LET user == found[1] IN
         IF ~verify_password(password, user.hashed_password)
         THEN HTTPException(400, "Incorrect email or password") @@ [token |-> NoToken]
         ELSE LET access_token ==
                      create_access_token(user.email, user.email, user.role, nowTicks)
              IN [status |-> 200, token |-> access_token,
                  body |-> [access_token |-> access_token, token_type |-> "bearer"]]

\* login_for_access_token
login_for_access_token(email, password, docs, nowTicks) ==
    LET found == get_documents(docs, email) IN
    IF found = <<>>
    THEN HTTPException(400, "Incorrect email or password") @@ [token |-> NoToken]
    ELSE LET user == found[1] IN
         IF ~verify_password(password, user.hashed_password)
         THEN HTTPException(400, "Incorrect email or password") @@ [token |-> NoToken]
         ELSE LET access_token ==
                      create_access_token(str(user._id), user.email, user.role, nowTicks)
              IN [status |-> 200, token |-> access_token,
                  body |-> [access_token |-> access_token, token_type |-> "bearer"]]

credentials_exception == HTTPException(401, "Could not validate credentials")

\* get_current_user without the test for a missing sub or email claim
get_current_user_no_claim_check(token, docs, nowTicks) ==
    LET payload == jwt_decode(token, SECRET_KEY, nowTicks) IN
    IF ~payload.ok
    THEN [ok |-> FALSE, user |-> NoUser]
    ELSE LET user_list == get_documents(docs, payload.claims.email) IN
         IF user_list = <<>>
         THEN [ok |-> FALSE, user |-> NoUser]
         ELSE [ok |-> TRUE, user |-> user_list[1]]

\* get_current_user: the dependency of /me and /dashboard
get_current_user(token, docs, nowTicks) ==
    LET payload == jwt_decode(token, SECRET_KEY, nowTicks) IN
    IF ~payload.ok
    THEN [ok |-> FALSE, user |-> NoUser]
    ELSE IF payload.claims.sub = NoneVal \/ payload.claims.email = NoneVal
    THEN [ok |-> FALSE, user |-> NoUser]
    ELSE LET user_list == get_documents(docs, payload.claims.email) IN
         IF user_list = <<>>
         THEN [ok |-> FALSE, user |-> NoUser]
         ELSE [ok |-> TRUE, user |-> user_list[1]]

\* read_users_me without the filter on hashed_password
read_users_me_unfiltered(current_user) ==
    [_id |-> str(current_user._id), name |-> current_user.name,
     email |-> current_user.email, role |-> current_user.role,
     hashed_password |-> current_user.hashed_password,
     grade |-> current_user.grade]

\* read_users_me: drop hashed_password, turn _id into text
read_users_me(current_user) ==
    [_id |-> str(current_user._id), name |-> current_user.name,
     email |-> current_user.email, role |-> current_user.role,
     grade |-> current_user.grade]

\* dashboard
dashboard(current_user) ==
    IF current_user.role = "teacher"
    THEN [welcome |-> <<"Welcome, ", current_user.name, "!">>, view |-> "teacher"]
    ELSE [welcome |-> <<"Welcome, ", current_user.name, "!">>, view |-> "student"]

---------------------------------------------------------------------------
(* Tokens a client may present                                             *)

IssuedTokens == {i.token : i \in issued}

\* one signature byte changed: no longer the MAC of the claims under any key
TamperSignature(t) == [t EXCEPT !.sig.key = AttackerKey]

\* the payload edited, the old signature kept
OtherRole(role) == IF role = "teacher" THEN "student" ELSE "teacher"
TamperRole(t) == [t EXCEPT !.claims.role = OtherRole(@)]
ExtendExpiry(t) == [t EXCEPT !.claims.exp = @ + TTLSeconds]

\* tokens minted by another holder of the signing secret
WithoutSub(t) == jwt_encode([t.claims EXCEPT !.sub = NoneVal], SECRET_KEY)
WithoutEmail(t) == jwt_encode([t.claims EXCEPT !.email = NoneVal], SECRET_KEY)
ForUnknownEmail(t) == jwt_encode([t.claims EXCEPT !.email = "nobody@x.com"], SECRET_KEY)

Presentable ==
    IssuedTokens
    \cup {TamperSignature(t) : t \in IssuedTokens}
    \cup {ExtendExpiry(t) : t \in IssuedTokens}
    \cup {WithoutSub(t) : t \in IssuedTokens}
    \cup {WithoutEmail(t) : t \in IssuedTokens}
    \cup {ForUnknownEmail(t) : t \in IssuedTokens}
    \cup {NoToken}

---------------------------------------------------------------------------
(* The state machine                                                       *)

Init ==
    /\ users = <<>>
    /\ issued = {}
    /\ now = 0
    /\ pending = EmptyBag
    /\ resp = NoResponse

InFlight == BagCardinality(pending)

Respond(op, request, status, body, token, user) ==
    resp' = Response(op, request, status, body, token, user, 1 - resp.seq)

\* POST /auth/register, first half: validation and the existence check
RegisterCheck(r) ==
    /\ InFlight < NumProcs
    /\ LET out == register_check(r, users) IN
       IF out.status # 0
       THEN /\ Respond("register", r, out.status, out.body, NoToken, NoUser)
            /\ UNCHANGED <<users, issued, now, pending>>
       ELSE /\ Len(users) + InFlight < MaxUsers
            /\ pending' = pending (+) SetToBag({r})
            /\ UNCHANGED <<users, issued, now, resp>>

\* POST /auth/register, second half: hash, insert, issue the token, respond
RegisterInsert(r) ==
    /\ BagIn(r, pending)
    /\ \E hashed \in get_password_hash(r.password) :
         LET out == register_store(r, hashed, users, now) IN
         /\ users' = out.docs
         /\ issued' = issued \cup {[token |-> out.token, at |-> now]}
         /\ Respond("register", r, out.status, out.body, out.token, NoUser)
    /\ pending' = pending (-) SetToBag({r})
    /\ UNCHANGED now

\* POST /auth/token
Login(email, password) ==
    LET out == login_for_access_token(email, password, users, now)
        entry == [token |-> out.token, at |-> now]
    IN
    /\ out.status = 200 => (entry \in issued \/ Cardinality(issued) < MaxTokens)
    /\ issued' = IF out.status = 200 THEN issued \cup {entry} ELSE issued
    /\ Respond("login", LoginRequest(email, password), out.status, out.body,
               out.token, NoUser)
    /\ UNCHANGED <<users, now, pending>>

\* GET /me
Me(token) ==
    LET cu == get_current_user(token, users, now) IN
    /\ IF cu.ok
       THEN Respond("me", BearerRequest(token), 200, read_users_me(cu.user),
                    NoToken, cu.user)
       ELSE Respond("me", BearerRequest(token), credentials_exception.status,
                    credentials_exception.body, NoToken, NoUser)
    /\ UNCHANGED <<users, issued, now, pending>>

\* GET /dashboard
Dashboard(token) ==
    LET cu == get_current_user(token, users, now) IN
    /\ IF cu.ok
       THEN Respond("dashboard", BearerRequest(token), 200, dashboard(cu.user),
                    NoToken, cu.user)
       ELSE Respond("dashboard", BearerRequest(token), credentials_exception.status,
                    credentials_exception.body, NoToken, NoUser)
    /\ UNCHANGED <<users, issued, now, pending>>

\* the wall clock moves on by one tick
Tick ==
    /\ now % Jump < MaxFine
    /\ now' = now + 1
    /\ UNCHANGED <<users, issued, pending, resp>>

\* the wall clock moves on by one second less than a token lifetime
TickJump ==
    /\ now < Jump
    /\ now' = now + Jump
    /\ UNCHANGED <<users, issued, pending, resp>>

\* the wall clock moves on by one second more than a token lifetime, once
TickLifetime ==
    /\ now < TTLTicks + TicksPerSecond
    /\ now' = now + TTLTicks + TicksPerSecond
    /\ UNCHANGED <<users, issued, pending, resp>>

\* register calls: students with and without a grade, teachers without
RegisterRequests ==
    {RegisterRequest(n, e, "pw123", "student", g) :
        n \in Names, e \in Emails, g \in Grades}
    \cup {RegisterRequest(n, e, "pw123", "teacher", NoneVal) :
        n \in Names, e \in Emails}

\* The whole service: overlapping register calls, a coarse clock
Next ==
    \/ \E r \in RegisterRequests : RegisterCheck(r)
    \/ \E r \in BagToSet(pending) : RegisterInsert(r)
    \/ \E e \in Emails, pw \in Passwords : Login(e, pw)
    \/ \E t \in Presentable : Me(t)
    \/ \E t \in IssuedTokens \cup {NoToken} : Dashboard(t)
    \/ TickLifetime

Spec == Init /\ [][Next]_vars

\* The same service when register calls never overlap
SeqNext ==
    \/ \E r \in RegisterRequests : InFlight = 0 /\ RegisterCheck(r)
    \/ \E r \in BagToSet(pending) : RegisterInsert(r)
    \/ \E e \in Emails, pw \in Passwords : Login(e, pw)
    \/ \E t \in Presentable : Me(t)
    \/ \E t \in IssuedTokens \cup {NoToken} : Dashboard(t)
    \/ TickLifetime

SeqSpec == Init /\ [][SeqNext]_vars

\* One account and a fine clock: the life of a token around its expiry
TokenRequests == {RegisterRequest("Ann", "a@x.com", "pw123", "teacher", NoneVal)}

TokenNext ==
    \/ \E r \in TokenRequests : RegisterCheck(r)
    \/ \E r \in BagToSet(pending) : RegisterInsert(r)
    \/ \E pw \in Passwords : Login("a@x.com", pw)
    \/ \E t \in Presentable : Me(t)
    \/ Tick
    \/ TickJump

TokenSpec == Init /\ [][TokenNext]_vars

---------------------------------------------------------------------------
(* Properties                                                              *)

HasEmail(docs, email) == \E k \in 1..Len(docs) : docs[k].email = email

\* this step handled a request of the given kind to its response
Handled(op) == resp'.seq # resp.seq /\ resp'.op = op

SigValid(t) == t.sig = Sign(SECRET_KEY, t.claims)

\* C1 (as claimed): a token issued at time t is accepted at every now < t + TTL
\* and rejected as Expired (401) at every now >= t + TTL; once it has been
\* rejected as expired it stays rejected.
C1_ExpiresAtIssuePlusTTL ==
    [][ /\ Handled("me") =>
             \A i \in issued :
                 i.token = resp'.req.token =>
                     IF now < i.at + TTLTicks
                     THEN resp'.status = 200
                     ELSE /\ resp'.status = 401
                          /\ jwt_decode(i.token, SECRET_KEY, now).error = "Expired"
        /\ \A i \in issued :
               jwt_decode(i.token, SECRET_KEY, now).error = "Expired"
                   => jwt_decode(i.token, SECRET_KEY, now').error = "Expired"
      ]_vars

\* C2: /me and /dashboard get a user from get_current_user exactly when the
\* token's signature is valid under the server secret, the verifier's clock has
\* not passed its exp, it carries sub and email, and the directory holds a
\* record with that email; otherwise the answer is 401 and no user.
C2_CurrentUserIff ==
    [][ (Handled("me") \/ Handled("dashboard")) =>
            LET t == resp'.req.token
                good == /\ SigValid(t)
                        /\ timegm(now) <= t.claims.exp
                        /\ t.claims.sub # NoneVal
                        /\ t.claims.email # NoneVal
                        /\ HasEmail(users, t.claims.email)
            IN IF good
               THEN /\ resp'.status = 200
                    /\ \E k \in 1..Len(users) :
                           users[k] = resp'.user /\ users[k].email = t.claims.email
               ELSE /\ resp'.status = 401
                    /\ resp'.user = NoUser
                    /\ resp'.body = [detail |-> "Could not validate credentials"]
      ]_vars

\* C2 witness: a genuine, untampered token has been refused because it expired,
\* while its user is still in the directory
C2_Witness ==
    /\ resp.op = "me"
    /\ resp.status = 401
    /\ resp.req.token \in IssuedTokens
    /\ HasEmail(users, resp.req.token.claims.email)

NoDuplicateEmails ==
    \A j, k \in 1..Len(users) : users[j].email = users[k].email => j = k

GradeMissing(r) == r.role = "student" /\ (r.grade = NoneVal \/ r.grade = EmptyStr)

\* C3 (as claimed): with no overlap, every register call whose email already
\* has a record fails with 409, inserts nothing and issues no token, and no two
\* records share an email.
C3_ExistingEmailIsConflict ==
    [][ /\ (Handled("register") /\ HasEmail(users, resp'.req.email)) =>
             /\ resp'.status = 409
             /\ users' = users
             /\ issued' = issued
             /\ resp'.token = NoToken
        /\ NoDuplicateEmails'
      ]_vars

\* C3 (amended): with no overlap, a register call whose email already has a
\* record fails, with 400 when it is a student without a grade and with 409
\* otherwise; it inserts nothing and issues no token, and no two records share
\* an email.
C3_ExistingEmailIsRefused ==
    [][ /\ (Handled("register") /\ HasEmail(users, resp'.req.email)) =>
             /\ resp'.status = IF GradeMissing(resp'.req) THEN 400 ELSE 409
             /\ users' = users
             /\ issued' = issued
             /\ resp'.token = NoToken
        /\ NoDuplicateEmails'
      ]_vars

\* C3 witness: a second registration of a stored email has been answered 409
C3_Witness ==
    /\ resp.op = "register"
    /\ resp.status = 409
    /\ HasEmail(users, resp.req.email)
    /\ Len(users) = 2

\* C4: a register call that has passed the existence check inserts its record
\* and answers 200 with a token whatever happened to the directory in between;
\* the check is not repeated at the insert.
C4_InsertAfterCheckAlwaysSucceeds ==
    [][ \A r \in BagToSet(pending) :
            CopiesIn(r, pending') < CopiesIn(r, pending) =>
                /\ Len(users') = Len(users) + 1
                /\ users'[Len(users')].email = r.email
                /\ resp'.op = "register"
                /\ resp'.status = 200
                /\ resp'.token \in {i.token : i \in issued'}
                /\ resp'.token.claims.sub = str(users'[Len(users')]._id)
      ]_vars

\* C4 witness: two register calls for one email have both succeeded; the
\* directory holds two records with that email and each call got its token
C4_Witness ==
    /\ Len(users) = 2
    /\ users[1].email = users[2].email
    /\ pending = EmptyBag
    /\ \E i, j \in issued :
           /\ i.token.claims.sub = str(users[1]._id)
           /\ j.token.claims.sub = str(users[2]._id)

\* C5: register as a student without a grade answers 400, stores no user and
\* issues no token, and never gets as far as the directory; register as a
\* teacher without a grade, for an email not in use, answers 200, stores the
\* user and returns a token.
C5_GradeRule ==
    [][ /\ (Handled("register") /\ GradeMissing(resp'.req)) =>
             /\ resp'.status = 400
             /\ users' = users
             /\ issued' = issued
             /\ resp'.token = NoToken
             /\ pending' = pending
        /\ \A r \in BagToSet(pending') : ~GradeMissing(r)
        /\ (/\ Handled("register")
            /\ resp'.req.role = "teacher"
            /\ resp'.req.grade = NoneVal
            /\ ~HasEmail(users, resp'.req.email)) =>
             /\ resp'.status = 200
             /\ Len(users') = Len(users) + 1
             /\ users'[Len(users')].email = resp'.req.email
             /\ users'[Len(users')].role = "teacher"
             /\ resp'.body.access_token \in {i.token : i \in issued'}
      ]_vars

\* C5 witness: a student without a grade has been refused with 400 while a
\* teacher registered without a grade is stored
C5_Witness ==
    /\ resp.op = "register"
    /\ resp.status = 400
    /\ GradeMissing(resp.req)
    /\ \E k \in 1..Len(users) : users[k].role = "teacher" /\ users[k].grade = NoneVal

\* C6: every failed login carries one and the same response, 400 "Incorrect
\* email or password", whether the email is unknown or the password wrong; a
\* token is issued only if a record with that email exists whose digest the
\* password verifies against.
C6_LoginFailureUniform ==
    resp.op = "login" =>
        IF resp.status = 200
        THEN /\ resp.token # NoToken
             /\ resp.body.access_token = resp.token
             /\ \E k \in 1..Len(users) :
                    /\ users[k].email = resp.req.email
                    /\ verify_password(resp.req.password, users[k].hashed_password)
        ELSE /\ resp.status = 400
             /\ resp.body = [detail |-> "Incorrect email or password"]
             /\ resp.token = NoToken

\* C6 witness: a login for an email nobody registered has failed
C6_Witness ==
    /\ resp.op = "login"
    /\ resp.status = 400
    /\ ~HasEmail(users, resp.req.email)
    /\ Len(users) > 0

StringFields == {"detail", "user_id", "token_type", "_id", "name", "email",
                 "role", "grade", "view"}

BodyClean(body) ==
    /\ "hashed_password" \notin DOMAIN body
    /\ "password" \notin DOMAIN body
    /\ \A f \in DOMAIN body \cap StringFields : body[f] \notin Passwords
    /\ "access_token" \in DOMAIN body =>
           DOMAIN body.access_token.claims = {"sub", "email", "role", "exp"}

\* C7 (as claimed): neither the value get_current_user hands back nor any
\* response of register, login, /me or /dashboard contains hashed_password.
C7_DigestStrippedByCurrentUser ==
    /\ "hashed_password" \notin DOMAIN resp.user
    /\ BodyClean(resp.body)

\* C7 (amended): get_current_user hands the handler the stored record as it is,
\* hashed_password included; /me answers with that record less hashed_password,
\* and no response of register, login, /me or /dashboard contains
\* hashed_password or the plaintext password.
C7_DigestStrippedInResponses ==
    /\ BodyClean(resp.body)
    /\ resp.user # NoUser =>
           /\ "hashed_password" \in DOMAIN resp.user
           /\ resp.op = "me" =>
                  /\ DOMAIN resp.body = DOMAIN resp.user \ {"hashed_password"}
                  /\ \A f \in DOMAIN resp.body \ {"_id"} : resp.body[f] = resp.user[f]

\* C7 witness: /me has answered 200 for a user
C7_Witness ==
    /\ resp.op = "me"
    /\ resp.status = 200
    /\ resp.body.email = resp.user.email

\* C8: a token that register or login issues carries the id, email and role of
\* one user record that is in the directory when it is issued.
C8_ClaimsMatchStoredUser ==
    [][ \A i \in issued' \ issued :
            /\ SigValid(i.token)
            /\ \E k \in 1..Len(users') :
                   /\ i.token.claims.sub = str(users'[k]._id)
                   /\ i.token.claims.email = users'[k].email
                   /\ i.token.claims.role = users'[k].role
      ]_vars

\* C8 witness: login has issued a token that register had not handed out
C8_Witness ==
    /\ resp.op = "login"
    /\ resp.status = 200
    /\ \E i \in issued : i.token = resp.token /\ i.at > 0

\* C9: the directory changes only in the step in which a register call
\* succeeds, which appends one record and leaves the others as they were;
\* login, /me, /dashboard and a failed register leave it alone.
C9_DirectoryFrame ==
    [][ \/ users' = users
        \/ /\ BagCardinality(pending') = BagCardinality(pending) - 1
           /\ resp'.op = "register"
           /\ resp'.status = 200
           /\ Len(users') = Len(users) + 1
           /\ SubSeq(users', 1, Len(users)) = users
      ]_vars

\* C9 witness: a register call has succeeded while another record was stored
C9_Witness ==
    /\ resp.op = "register"
    /\ resp.status = 200
    /\ Len(users) = 2

\* C10 (as claimed): whenever get_current_user accepts an issued token, the
\* record it returns is the one the token was issued for: same id, same role,
\* and /dashboard shows that role's view.
C10_TokenBoundToItsUser ==
    (resp.op \in {"me", "dashboard"} /\ resp.status = 200
        /\ resp.req.token \in IssuedTokens) =>
        /\ str(resp.user._id) = resp.req.token.claims.sub
        /\ resp.user.role = resp.req.token.claims.role
        /\ resp.op = "dashboard" => resp.body.view = resp.req.token.claims.role

=============================================================================
